---- MODULE Spec2Model ----
(***************************************************************************)
(* Model of kmx::sensor::data::base<traits> (base.hpp) and of its three    *)
(* instantiations temperature, humidity and light_intensity, with the      *)
(* unit lookup kmx::text_of.                                               *)
(*                                                                         *)
(* input_type is float in all three instantiations.  A float is modelled   *)
(* exactly: a finite value is m * 2^e with m = 0 or 2^23 <= |m| < 2^24,    *)
(* and every arithmetic step rounds to nearest, ties to even, as IEEE-754  *)
(* binary32 does.  Subnormals, overflow to infinity and the sign of zero   *)
(* are not modelled; no input of the model produces them.  The arguments   *)
(* range over finite floats and the two infinities; a NaN argument is      *)
(* outside the model (std::clamp requires an ordered argument, and the     *)
(* conversion of NaN to an integer has no defined result).                 *)
(***************************************************************************)
EXTENDS Integers, Sequences, FiniteSets, TLC

----------------------------------------------------------------------------
(* binary32 values *)

TwoTo23 == 8388608
TwoTo24 == 16777216

Abs(x) == IF x < 0 THEN -x ELSE x
Sgn(x) == IF x < 0 THEN -1 ELSE IF x > 0 THEN 1 ELSE 0

Fin(m, e) == [k |-> "fin", m |-> m, e |-> e]
NaN       == [k |-> "nan", m |-> 0, e |-> 0]
PosInf    == [k |-> "inf", m |-> 1, e |-> 0]
NegInf    == [k |-> "inf", m |-> -1, e |-> 0]
Zero      == Fin(0, 0)

IsFin(a) == a.k = "fin"
IsNaN(a) == a.k = "nan"

\* n/d * 2^e rewritten with d <= n < 2d  (n > 0, d > 0)
RECURSIVE NormRatio(_, _, _)
NormRatio(n, d, e) ==
    IF n < d THEN NormRatio(2 * n, d, e - 1)
    ELSE IF n >= 2 * d THEN NormRatio(n, 2 * d, e + 1)
    ELSE <<n, d, e>>

\* i further quotient bits of r/d by restoring division (r < d)
RECURSIVE DivBits(_, _, _, _)
DivBits(q, r, d, i) ==
    IF i = 0 THEN <<q, r>>
    ELSE IF 2 * r >= d THEN DivBits(2 * q + 1, 2 * r - d, d, i - 1)
         ELSE DivBits(2 * q, 2 * r, d, i - 1)

\* sg * (q + r/d) * 2^(e-23) rounded to 24 bits, ties to even
\* (2^23 <= q < 2^24, 0 <= r < d)
RoundBits(sg, q, r, d, e) ==
    IF (2 * r > d) \/ (2 * r = d /\ q % 2 = 1)
    THEN IF q + 1 = TwoTo24 THEN Fin(sg * TwoTo23, e - 22) ELSE Fin(sg * (q + 1), e - 23)
    ELSE Fin(sg * q, e - 23)

\* sg * (t[1]/t[2]) * 2^t[3] rounded, for t[2] <= t[1] < 2 * t[2]
RoundNorm(sg, t, qr) == RoundBits(sg, qr[1], qr[2], t[2], t[3])

\* the binary32 nearest to sg * (n/d) * 2^e, ties to even  (n > 0, d > 0)
RoundRatio(sg, n, d, e) ==
    LET t == NormRatio(n, d, e)
    IN  RoundNorm(sg, t, DivBits(1, t[1] - t[2], t[2], 23))

\* a float literal n/d (d > 0), as the compiler converts it
Lit(n, d) == IF n = 0 THEN Zero ELSE RoundRatio(Sgn(n), Abs(n), d, 0)

\* static_cast<input_type>(integer)
FromInt(n) == Lit(n, 1)

\* the same value with the trailing zero bits of the significand removed
RECURSIVE Reduce(_)
Reduce(a) == IF a.m # 0 /\ a.m % 2 = 0 THEN Reduce(Fin(a.m \div 2, a.e + 1)) ELSE a

FNeg(a) == [a EXCEPT !.m = -a.m]
FAbs(a) == [a EXCEPT !.m = Abs(a.m)]

\* operator< on floats
FLess(a, b) ==
    IF IsNaN(a) \/ IsNaN(b) THEN FALSE
    ELSE IF a.k = "inf" THEN a.m < 0 /\ ~(b.k = "inf" /\ b.m < 0)
    ELSE IF b.k = "inf" THEN b.m > 0
    ELSE IF Sgn(a.m) # Sgn(b.m) THEN Sgn(a.m) < Sgn(b.m)
    ELSE IF a.m > 0 THEN a.e < b.e \/ (a.e = b.e /\ a.m < b.m)
    ELSE IF a.m < 0 THEN a.e > b.e \/ (a.e = b.e /\ a.m < b.m)
    ELSE FALSE

FLeq(a, b) == ~IsNaN(a) /\ ~IsNaN(b) /\ ~FLess(b, a)

\* the rounded product of two finite non-zero floats
FMulReduced(ra, rb) ==
    RoundRatio(Sgn(ra.m) * Sgn(rb.m), Abs(ra.m) * Abs(rb.m), 1, ra.e + rb.e)

\* operator* on floats
FMul(a, b) ==
    IF IsNaN(a) \/ IsNaN(b) THEN NaN
    ELSE IF a.k = "inf" \/ b.k = "inf"
         THEN IF a.m = 0 \/ b.m = 0 THEN NaN
              ELSE IF Sgn(a.m) = Sgn(b.m) THEN PosInf ELSE NegInf
    ELSE IF a.m = 0 \/ b.m = 0 THEN Zero
    ELSE FMulReduced(Reduce(a), Reduce(b))

\* operator/ on floats
FDiv(a, b) ==
    IF IsNaN(a) \/ IsNaN(b) THEN NaN
    ELSE IF a.k = "inf"
         THEN IF b.k = "inf" THEN NaN
              ELSE IF (a.m < 0) = (b.m < 0) THEN PosInf ELSE NegInf
    ELSE IF b.k = "inf" THEN Zero
    ELSE IF b.m = 0
         THEN IF a.m = 0 THEN NaN ELSE IF a.m > 0 THEN PosInf ELSE NegInf
    ELSE IF a.m = 0 THEN Zero
    ELSE RoundRatio(Sgn(a.m) * Sgn(b.m), Abs(a.m), Abs(b.m), a.e - b.e)

\* |m| shifted right by g bits, keeping a sticky lowest bit
Jam(m, g) ==
    IF g = 0 THEN m
    ELSE IF g > 24 THEN 1
    ELSE IF m % (2 ^ g) # 0 /\ (m \div (2 ^ g)) % 2 = 0 THEN (m \div (2 ^ g)) + 1
    ELSE m \div (2 ^ g)

\* the rounded value of n * 2^e
FSum(n, e) == IF n = 0 THEN Zero ELSE RoundRatio(Sgn(n), Abs(n), 1, e)

\* hi + lo for finite non-zero floats with hi.e - lo.e = g >= 0; the smaller
\* term is aligned to sh = min(g, 5) extra bits
FAligned(hi, lo, g, sh) ==
    FSum(hi.m * (2 ^ sh) + Sgn(lo.m) * Jam(Abs(lo.m), g - sh), hi.e - sh)

FAdd(hi, lo, g) == FAligned(hi, lo, g, IF g < 5 THEN g ELSE 5)

\* operator- on floats
FSub(a, b) ==
    IF IsNaN(a) \/ IsNaN(b) THEN NaN
    ELSE IF a.k = "inf"
         THEN IF b.k = "inf" /\ a.m = b.m THEN NaN ELSE a
    ELSE IF b.k = "inf" THEN FNeg(b)
    ELSE IF b.m = 0 THEN a
    ELSE IF a.m = 0 THEN FNeg(b)
    ELSE IF a.e >= b.e THEN FAdd(a, FNeg(b), a.e - b.e)
    ELSE FAdd(FNeg(b), a, b.e - a.e)

\* std::abs
std_abs(a) == FAbs(a)

\* a conversion that drops the fraction instead of rounding
std_round_truncating(a) ==
    IF a.e >= 0 THEN a.m * (2 ^ a.e)
    ELSE IF a.e < -24 THEN 0
    ELSE Sgn(a.m) * (Abs(a.m) \div (2 ^ (-a.e)))

\* std::round of a finite float, as an integer: nearest, halves away from zero
std_round(a) ==
    IF a.e >= 0 THEN a.m * (2 ^ a.e)
    ELSE IF a.e < -24 THEN 0
    ELSE IF 2 * (Abs(a.m) % (2 ^ (-a.e))) >= 2 ^ (-a.e)
    THEN Sgn(a.m) * ((Abs(a.m) \div (2 ^ (-a.e))) + 1)
    ELSE Sgn(a.m) * (Abs(a.m) \div (2 ^ (-a.e)))

\* no clamping
std_clamp_absent(v, lo, hi) == v

\* std::clamp(v, lo, hi)
std_clamp(v, lo, hi) == IF FLess(v, lo) THEN lo ELSE IF FLess(hi, v) THEN hi ELSE v


\* the float k units in the last place above (k > 0) or below (k < 0) a # 0
RECURSIVE Step(_, _)
Step(a, k) ==
    IF k = 0 THEN a
    ELSE IF (k > 0) = (a.m > 0)
    THEN IF Abs(a.m) + 1 = TwoTo24
         THEN Step(Fin(Sgn(a.m) * TwoTo23, a.e + 1), k - Sgn(k))
         ELSE Step(Fin(a.m + Sgn(a.m), a.e), k - Sgn(k))
    ELSE IF Abs(a.m) = TwoTo23
         THEN Step(Fin(Sgn(a.m) * (TwoTo24 - 1), a.e - 1), k - Sgn(k))
         ELSE Step(Fin(a.m - Sgn(a.m), a.e), k - Sgn(k))

----------------------------------------------------------------------------
(* kmx::unit and kmx::text_of *)

celsius          == 0
percent          == 1
lux              == 2
pascal           == 3
volt             == 4
ampere           == 5
meter_per_second == 6

\* the values of std::uint8_t, the underlying type of kmx::unit
UnitOrdinals == 0 .. 255

items == <<"°C", "%", "lx", "Pa", "V", "A", "m/s">>

text_of(u) == IF u < Len(items) THEN items[u + 1] ELSE ""

\* base.hpp declares no to_string_view: a call of it does not compile
IllFormed == "error: 'to_string_view' was not declared in this scope"

to_string_view(u) == IllFormed

----------------------------------------------------------------------------
(* traits: temperature_traits, humidity_traits, light_intensity_traits *)

Kinds == {"temperature", "humidity", "light_intensity"}

temperature_traits ==
    [storage_min |-> -32768, storage_max |-> 32767,       \* std::int16_t
     min_value   |-> Lit(-50, 1),
     max_value   |-> Lit(50, 1),
     resolution  |-> Lit(1, 10),
     unit        |-> celsius]

humidity_traits_signed_byte ==
    [storage_min |-> -128, storage_max |-> 127,
     min_value   |-> Lit(0, 1),
     max_value   |-> Lit(100, 1),
     resolution  |-> Lit(1, 2),
     unit        |-> percent]

humidity_traits ==
    [storage_min |-> 0, storage_max |-> 255,               \* std::uint8_t
     min_value   |-> Lit(0, 1),
     max_value   |-> Lit(100, 1),
     resolution  |-> Lit(1, 2),
     unit        |-> percent]

light_intensity_traits ==
    [storage_min |-> 0, storage_max |-> 65535,             \* std::uint16_t
     min_value   |-> Lit(0, 1),
     max_value   |-> Lit(65535, 1),
     resolution  |-> Lit(1, 1),
     unit        |-> lux]

\* the traits argument of base<traits> in each of the three classes
traits ==
    [k \in Kinds |->
        CASE k = "temperature"     -> temperature_traits
          [] k = "humidity"        -> humidity_traits
          [] k = "light_intensity" -> light_intensity_traits]

min_value  == [k \in Kinds |-> traits[k].min_value]
max_value  == [k \in Kinds |-> traits[k].max_value]
resolution == [k \in Kinds |-> traits[k].resolution]
unit       == [k \in Kinds |-> traits[k].unit]

\* std::numeric_limits<storage_type>::min() and max()
StorageMin == [k \in Kinds |-> traits[k].storage_min]
StorageMax == [k \in Kinds |-> traits[k].storage_max]

StorageValues(k) == StorageMin[k] .. StorageMax[k]

\* traits' static_asserts
TraitsValid(k) == FLess(Zero, resolution[k]) /\ FLeq(min_value[k], max_value[k])

----------------------------------------------------------------------------
(* base<traits>: the scaling law *)

scale_numerator == Lit(1, 1)

scale_factor == [k \in Kinds |-> FDiv(scale_numerator, resolution[k])]

\* the limits of the 32-bit integer the float is converted to on the way to
\* the storage type
Int32Min == -2147483647 - 1
Int32Max == 2147483647

\* the float-to-integer conversion instruction: the value when it is a 32-bit
\* integer, and the "integer indefinite" value 0x80000000 otherwise
cvttss2si(n) == IF Int32Min <= n /\ n <= Int32Max THEN n ELSE Int32Min

\* keeping the low bits of a 32-bit integer that the storage type holds
truncate_to_storage(n, k) ==
    StorageMin[k] + ((n - StorageMin[k]) % (StorageMax[k] - StorageMin[k] + 1))

\* static_cast<storage_type>(x) of an integer-valued float x: the value when
\* the storage type has it, and otherwise undefined: what the conversion
\* instruction leaves in the low bits (0 beyond the 32-bit range), or a limit
\* of the type where the conversion saturates
static_cast_storage(n, k) ==
    IF StorageMin[k] <= n /\ n <= StorageMax[k] THEN {n}
    ELSE {StorageMin[k], StorageMax[k], truncate_to_storage(cvttss2si(n), k)}

\* a finite float whose magnitude is below 2^31
BelowTwoTo31(a) == a.m = 0 \/ a.e < 8

\* the possible results of convert_to_scaled(val) (one, unless the cast is
\* undefined); a product of magnitude 2^31 or more, or an infinite one,
\* converts to the indefinite value
convert_to_scaled(val, k) ==
    LET scaled_float == FMul(val, scale_factor[k])
    IN  IF IsFin(scaled_float) /\ BelowTwoTo31(scaled_float)
        THEN static_cast_storage(std_round(scaled_float), k)
        ELSE {StorageMin[k], StorageMax[k], truncate_to_storage(Int32Min, k)}

\* dividing by the resolution instead of the scale factor
convert_to_physical_by_resolution(val, k) == FDiv(FromInt(val), resolution[k])

convert_to_physical(val, k) ==
    LET scaled_val_as_input == FromInt(val)
    IN  FDiv(scaled_val_as_input, scale_factor[k])

\* constant-evaluated: an undefined cast here would not compile
static_min_scaled_value ==
    [k \in Kinds |-> CHOOSE s \in convert_to_scaled(min_value[k], k) : TRUE]

static_max_scaled_value ==
    [k \in Kinds |-> CHOOSE s \in convert_to_scaled(max_value[k], k) : TRUE]

\* std::numeric_limits<float>::epsilon()
epsilon == Fin(TwoTo23, -46)

epsilon_limit == FMul(epsilon, Lit(100, 1))

----------------------------------------------------------------------------
(* base<traits>: the operations.  std::optional<T> is a sequence of length *)
(* at most one: << >> is std::nullopt.                                     *)

nullopt == << >>

\* base(): the default constructor
base_default == nullopt

\* base(initial_value): the possible values of scaled_value_
base_value(initial_value, k) ==
    {<<s>> : s \in convert_to_scaled(std_clamp(initial_value, min_value[k], max_value[k]), k)}

\* explicit operator bool()
operator_bool(cur) == cur # nullopt

\* a sentinel number for an undefined object
value_with_sentinel(cur, k) ==
    IF cur = nullopt THEN <<Zero>> ELSE <<convert_to_physical(cur[1], k)>>

\* value()
value(cur, k) == IF ~operator_bool(cur) THEN nullopt ELSE <<convert_to_physical(cur[1], k)>>

\* true only when nothing was clamped, with no tolerance
set_value_return_exact(new_value, k) ==
    new_value = std_clamp(new_value, min_value[k], max_value[k])

\* the boolean set_value(new_value) returns
set_value_return(new_value, k) ==
    LET clamped_value == std_clamp(new_value, min_value[k], max_value[k])
        difference    == std_abs(FSub(new_value, clamped_value))
    IN  FLess(difference, epsilon_limit)

\* a set_value that stores nothing when it clamps
set_value_rejecting(cur, new_value, k) ==
    LET clamped_value == std_clamp(new_value, min_value[k], max_value[k])
    IN  IF new_value = clamped_value
        THEN {[state |-> <<s>>, ret |-> TRUE] : s \in convert_to_scaled(clamped_value, k)}
        ELSE {[state |-> cur, ret |-> FALSE]}

\* set_value(new_value): the possible outcomes
set_value(cur, new_value, k) ==
    LET clamped_value == std_clamp(new_value, min_value[k], max_value[k])
    IN  {[state |-> <<s>>, ret |-> set_value_return(new_value, k)] :
            s \in convert_to_scaled(clamped_value, k)}

\* raw_scaled_value()
raw_scaled_value(cur) == cur

\* a set_raw_scaled_value that clamps what it rejects
set_raw_scaled_value_clamping(cur, raw_val, k) ==
    IF raw_val < static_min_scaled_value[k]
    THEN [state |-> <<static_min_scaled_value[k]>>, ret |-> FALSE]
    ELSE IF raw_val > static_max_scaled_value[k]
    THEN [state |-> <<static_max_scaled_value[k]>>, ret |-> FALSE]
    ELSE [state |-> <<raw_val>>, ret |-> TRUE]

\* set_raw_scaled_value(raw_val)
set_raw_scaled_value(cur, raw_val, k) ==
    IF (raw_val < static_min_scaled_value[k]) \/ (raw_val > static_max_scaled_value[k])
    THEN [state |-> cur, ret |-> FALSE]
    ELSE [state |-> <<raw_val>>, ret |-> TRUE]

\* a clear() that keeps the value
clear_keeping(cur) == cur

\* clear()
clear(cur) == nullopt

\* unit_string()
unit_string(k) == to_string_view(unit[k])

----------------------------------------------------------------------------
(* the arguments the operations are called with *)

UlpSpan == 4
MidSpan == 3
RawSpan == 2

\* floats next to a bound b: within UlpSpan units in the last place, or,
\* next to zero, the powers of two around epsilon_limit
NearBound(b) ==
    IF b.m = 0
    THEN {Zero} \cup {Fin(sg * TwoTo23, -39 - j) : sg \in {-1, 1}, j \in 0 .. UlpSpan}
    ELSE {Step(b, j) : j \in -UlpSpan .. UlpSpan}

\* the raw integers of the storage type next to the scaled bounds, to zero
\* and to the limits of the type
RawInputs(k) ==
    {r \in {c + j : c \in {static_min_scaled_value[k], static_max_scaled_value[k], 0, 250},
                    j \in -RawSpan .. RawSpan} \cup {StorageMin[k], StorageMax[k]} :
        StorageMin[k] <= r /\ r <= StorageMax[k]}

\* decimal literals half way between two steps of the resolution
Mids(k) == {Lit(2 * j + 1, 2 * std_round(scale_factor[k])) : j \in -MidSpan .. MidSpan}

PhysInputs(k) ==
    NearBound(min_value[k]) \cup NearBound(max_value[k]) \cup Mids(k)
    \cup {convert_to_physical(r, k) : r \in RawInputs(k)}
    \cup {Lit(2503, 100), Lit(55, 1), Lit(-60, 1), Lit(1000, 1), Lit(100000, 1),
          Fin(TwoTo23 + 1, 8), Fin(-(TwoTo23 + 1), 8), PosInf, NegInf}

PhysInputsOf == [k \in Kinds |-> PhysInputs(k)]
RawInputsOf  == [k \in Kinds |-> RawInputs(k)]

----------------------------------------------------------------------------
(* the state machine: one object of one of the three sensor classes *)

VARIABLES
    kind,           \* which class the object is an instance of
    scaled_value_,  \* base::scaled_value_
    op,             \* the last call
    arg,            \* its argument, << >> when it has none
    ret,            \* what it returned, << >> when it returns nothing
    prev            \* scaled_value_ before the call

vars == <<kind, scaled_value_, op, arg, ret, prev>>

Init ==
    /\ kind \in Kinds
    /\ TraitsValid(kind)
    /\ prev = nullopt
    /\ ret = << >>
    /\ \/ /\ op = "base"
          /\ arg = << >>
          /\ scaled_value_ = base_default
       \/ \E v \in PhysInputsOf[kind] :
             /\ op = "construct"
             /\ arg = <<v>>
             /\ scaled_value_ \in base_value(v, kind)

Call(name, a, r, next) ==
    /\ op' = name
    /\ arg' = a
    /\ ret' = r
    /\ prev' = scaled_value_
    /\ scaled_value_' = next
    /\ UNCHANGED kind

OperatorBool == Call("operator_bool", << >>, <<operator_bool(scaled_value_)>>, scaled_value_)

Value == Call("value", << >>, <<value(scaled_value_, kind)>>, scaled_value_)

\* the arguments include the value read back from the object
SetValue ==
    \E v \in PhysInputsOf[kind] \cup {value(scaled_value_, kind)[i] :
                                          i \in 1 .. Len(value(scaled_value_, kind))} :
        \E o \in set_value(scaled_value_, v, kind) :
            Call("set_value", <<v>>, <<o.ret>>, o.state)

RawScaledValue ==
    Call("raw_scaled_value", << >>, <<raw_scaled_value(scaled_value_)>>, scaled_value_)

SetRawScaledValue ==
    \E r \in RawInputsOf[kind] :
        LET o == set_raw_scaled_value(scaled_value_, r, kind)
        IN  Call("set_raw_scaled_value", <<r>>, <<o.ret>>, o.state)

Clear == Call("clear", << >>, << >>, clear(scaled_value_))

UnitString == Call("unit_string", << >>, <<unit_string(kind)>>, scaled_value_)

TextOf == \E u \in UnitOrdinals : Call("text_of", <<u>>, <<text_of(u)>>, scaled_value_)

Next ==
    \/ OperatorBool
    \/ Value
    \/ SetValue
    \/ RawScaledValue
    \/ SetRawScaledValue
    \/ Clear

Spec == Init /\ [][Next]_vars

\* the unit lookups, on any object
NextUnit ==
    \/ UnitString
    \/ TextOf

SpecUnit == Init /\ [][NextUnit]_vars

----------------------------------------------------------------------------
(* properties *)

Defined == scaled_value_ # nullopt

\* the argument of the last call, when it has one
Arg == arg[1]

\* min_value <= v <= max_value
InRange(v, k) == FLeq(min_value[k], v) /\ FLeq(v, max_value[k])

\* the call stored a value computed from a physical argument
Stored == op \in {"construct", "set_value"}

\* C1: set_raw_scaled_value(raw) with raw below the scaled minimum or above the
\* scaled maximum returns false and leaves the object as it was; any other raw
\* returns true and becomes the stored integer, unclamped and unrounded.
C1_SetRawTransactional ==
    op = "set_raw_scaled_value" =>
        IF Arg < static_min_scaled_value[kind] \/ Arg > static_max_scaled_value[kind]
        THEN ret = <<FALSE>> /\ scaled_value_ = prev
        ELSE ret = <<TRUE>> /\ scaled_value_ = <<Arg>>

\* a temperature holding a value rejects raw 501 and keeps the value
C1_Witness ==
    /\ kind = "temperature"
    /\ op = "set_raw_scaled_value"
    /\ arg = <<501>>
    /\ ret = <<FALSE>>
    /\ prev # nullopt
    /\ scaled_value_ = prev

\* C2: the object is undefined or holds an integer between the scaled
\* encodings round(x * scale_factor) of min_value and max_value.
C2_RangeInvariant ==
    Defined =>
        /\ std_round(FMul(min_value[kind], scale_factor[kind])) <= scaled_value_[1]
        /\ scaled_value_[1] <= std_round(FMul(max_value[kind], scale_factor[kind]))

\* set_value of an argument above max_value left the scaled maximum stored
C2_Witness ==
    /\ op = "set_value"
    /\ FLess(max_value[kind], Arg)
    /\ ret = <<FALSE>>
    /\ scaled_value_ = <<static_max_scaled_value[kind]>>

\* C3: after set_value(v) and after construction from v the object is defined
\* and holds round(clamp(v, min_value, max_value) * scale_factor), whatever the
\* object held before and whatever set_value returned; a temperature built
\* from 25.03 holds 250 and set_value(55.0) stores 500.
C3_SetValueAlwaysStores ==
    Stored =>
        /\ Defined
        /\ scaled_value_[1] =
              std_round(FMul(std_clamp(Arg, min_value[kind], max_value[kind]),
                             scale_factor[kind]))
        /\ (kind = "temperature" /\ Arg = Lit(2503, 100)) => scaled_value_ = <<250>>
        /\ (kind = "temperature" /\ Arg = Lit(55, 1)) => scaled_value_ = <<500>>

\* set_value(55.0) on a temperature holding another value returned false and
\* stored 500
C3_Witness ==
    /\ kind = "temperature"
    /\ op = "set_value"
    /\ arg = <<Lit(55, 1)>>
    /\ ret = <<FALSE>>
    /\ prev # nullopt
    /\ prev # <<500>>
    /\ scaled_value_ = <<500>>

\* how far v lies outside [min_value, max_value]
Excess(v, k) ==
    IF FLess(v, min_value[k]) THEN FSub(min_value[k], v)
    ELSE IF FLess(max_value[k], v) THEN FSub(v, max_value[k])
    ELSE Zero

\* 100 * 2^-23
Tolerance == Fin(13107200, -40)

\* C4 as stated: set_value(v) returns true iff v is within the bounds up to the
\* tolerance, and returns false whenever v is outside the bounds, that is
\* whenever it got clamped.
C4_Original ==
    op = "set_value" =>
        /\ ret = <<TRUE>> <=> FLess(Excess(Arg, kind), Tolerance)
        /\ ~InRange(Arg, kind) => ret = <<FALSE>>

\* C4 amended: set_value(v) returns true iff v is less than 100 * 2^-23 outside
\* the bounds: true for every v within the bounds and for a v that is clamped
\* by less than the tolerance, false from the tolerance on (55.0 on a
\* temperature returns false).
C4_SetValueReturn ==
    op = "set_value" =>
        /\ ret = <<TRUE>> <=> FLess(Excess(Arg, kind), Tolerance)
        /\ InRange(Arg, kind) => ret = <<TRUE>>
        /\ (kind = "temperature" /\ Arg = Lit(55, 1)) => ret = <<FALSE>>

\* a temperature was set to the float next above 50.0: clamped, and true returned
C4_Witness ==
    /\ kind = "temperature"
    /\ op = "set_value"
    /\ arg = <<Step(Lit(50, 1), 1)>>
    /\ ret = <<TRUE>>
    /\ scaled_value_ = <<500>>

\* |value() - v| for the v just stored
ReadBackError == std_abs(FSub(value(scaled_value_, kind)[1], Arg))

HalfResolution(k) == FMul(resolution[k], Lit(1, 2))

\* C5 as stated: a v within the bounds reads back within resolution / 2.
C5_Original ==
    (Stored /\ InRange(Arg, kind)) => FLeq(ReadBackError, HalfResolution(kind))

\* C5 amended: for the three sensor classes a v within the bounds reads back
\* within resolution / 2 + |value()| * 2^-23, and within resolution / 2 when
\* the resolution is a power of two (humidity, light_intensity).
C5_QuantizationBound ==
    (Stored /\ InRange(Arg, kind)) =>
        /\ FLeq(FSub(ReadBackError, HalfResolution(kind)),
                FMul(std_abs(value(scaled_value_, kind)[1]), epsilon))
        /\ kind # "temperature" => FLeq(ReadBackError, HalfResolution(kind))

\* a temperature built from or set to 0.25 holds 3 and reads back more than
\* 0.05 away
C5_Witness ==
    /\ kind = "temperature"
    /\ Stored
    /\ arg = <<Lit(25, 100)>>
    /\ scaled_value_ = <<3>>
    /\ FLess(HalfResolution(kind), ReadBackError)

\* C6: the physical value of a stored integer encodes to that integer again,
\* and set_value(value()) on a defined object returns true and leaves the
\* stored integer as it was.
C6_RoundTrip ==
    /\ Defined =>
          convert_to_scaled(convert_to_physical(scaled_value_[1], kind), kind)
              = {scaled_value_[1]}
    /\ (op = "set_value" /\ prev # nullopt /\ arg = value(prev, kind)) =>
          (ret = <<TRUE>> /\ scaled_value_ = prev)

\* set_value(value()) on a temperature holding 3
C6_Witness ==
    /\ kind = "temperature"
    /\ op = "set_value"
    /\ prev = <<3>>
    /\ arg = value(prev, kind)
    /\ ret = <<TRUE>>
    /\ scaled_value_ = <<3>>

\* C7: clear() leaves the object undefined, whatever it held; an undefined
\* object answers every query with absence, and only a construction from a
\* value, set_value or an accepted set_raw_scaled_value makes an undefined
\* object defined.
C7_Clear ==
    /\ op = "clear" => ~Defined
    /\ (prev = nullopt /\ op = "operator_bool") => ret = <<FALSE>>
    /\ (prev = nullopt /\ op \in {"value", "raw_scaled_value"}) => ret = <<nullopt>>
    /\ (prev = nullopt /\ Defined) =>
          \/ op \in {"construct", "set_value"}
          \/ op = "set_raw_scaled_value" /\ ret = <<TRUE>>

\* clear() on a defined object
C7_Witness ==
    /\ op = "clear"
    /\ prev # nullopt
    /\ scaled_value_ = nullopt

\* the scale factors 1 / resolution of the three classes
NominalScale(k) ==
    CASE k = "temperature"     -> Lit(10, 1)
      [] k = "humidity"        -> Lit(2, 1)
      [] k = "light_intensity" -> Lit(1, 1)

\* C8: a default-constructed object is undefined; operator bool, value() and
\* raw_scaled_value() agree on whether the object is defined, return the
\* stored integer and that integer divided by the scale factor, and leave
\* the object as it was.
C8_Queries ==
    /\ op = "base" => ~Defined
    /\ op \in {"operator_bool", "value", "raw_scaled_value"} => scaled_value_ = prev
    /\ op = "operator_bool" => ret = <<Defined>>
    /\ op = "raw_scaled_value" => ret = <<scaled_value_>>
    /\ op = "value" =>
          ret = IF Defined
                THEN << <<FDiv(FromInt(scaled_value_[1]), NominalScale(kind))>> >>
                ELSE <<nullopt>>

\* value() on a temperature holding 250 returned 25.0
C8_Witness ==
    /\ kind = "temperature"
    /\ op = "value"
    /\ scaled_value_ = <<250>>
    /\ ret = << <<Lit(25, 1)>> >>

\* C9: the accepted raw range is [-500, 500] for temperature (int16_t),
\* [0, 200] for humidity (uint8_t) and [0, 65535] for light_intensity
\* (uint16_t); the bounds are values of the storage type, and what a
\* construction or set_value stores is the rounded value itself, between them.
C9_ConcreteRanges ==
    LET lo == static_min_scaled_value[kind]
        hi == static_max_scaled_value[kind]
    IN  /\ kind = "temperature" => (lo = -500 /\ hi = 500 /\ -32768 <= lo /\ hi <= 32767)
        /\ kind = "humidity" => (lo = 0 /\ hi = 200 /\ 0 <= lo /\ hi <= 255)
        /\ kind = "light_intensity" => (lo = 0 /\ hi = 65535 /\ 0 <= lo /\ hi <= 65535)
        /\ op = "set_raw_scaled_value" => (ret = <<TRUE>> <=> (lo <= Arg /\ Arg <= hi))
        /\ Stored =>
              /\ lo <= scaled_value_[1] /\ scaled_value_[1] <= hi
              /\ scaled_value_[1] =
                    std_round(FMul(std_clamp(Arg, min_value[kind], max_value[kind]),
                                   NominalScale(kind)))

\* a humidity set above 100.0 holds 200, beyond the range of a signed byte
C9_Witness ==
    /\ kind = "humidity"
    /\ op = "set_value"
    /\ FLess(max_value[kind], Arg)
    /\ scaled_value_ = <<200>>

\* the symbol of each unit
Symbol(u) ==
    CASE u = 0 -> "°C"
      [] u = 1 -> "%"
      [] u = 2 -> "lx"
      [] u = 3 -> "Pa"
      [] u = 4 -> "V"
      [] u = 5 -> "A"
      [] u = 6 -> "m/s"
      [] OTHER -> ""

\* C10: text_of returns the symbol of each of the seven units and the empty
\* string for the ordinals 7..255, and unit_string() returns the symbol of the
\* unit of the traits, whatever the object holds.
C10_UnitText ==
    /\ op = "text_of" => ret = <<Symbol(Arg)>>
    /\ op = "unit_string" => (ret = <<Symbol(unit[kind])>> /\ scaled_value_ = prev)

====
